---- MODULE Spec2Model ----
(***************************************************************************)
(* Adminory backend: the authentication service (AuthService), its JWT     *)
(* helpers and the two Redis key spaces it uses (refresh-token allow       *)
(* records and one-time tokens), as a state machine of concurrently        *)
(* running request handlers.  A handler is split at the store/database      *)
(* operations it awaits.                                                    *)
(***************************************************************************)
EXTENDS Integers, FiniteSets, Sequences, TLC

\* ------------------------------------------------------------------ bounds
NumProcs == 2
MaxCalls == 3
MaxTicks == 1

Procs == 1..NumProcs
Emails == {"a@x", "b@x"}
Passwords == {"pw1", "pw2"}

\* ------------------------------------------------------- program constants
ACCESS_TOKEN_EXPIRE_MINUTES == 15
REFRESH_TOKEN_EXPIRE_DAYS == 7
REFRESH_STORE_TTL == 7 * 24 * 3600
PASSWORD_RESET_TTL == 3600
EMAIL_VERIFICATION_TTL == 86400

\* The clock advances by two seconds, by the refresh window, or by one second
\* less than the refresh window.
TickSteps == {2, REFRESH_STORE_TTL - 1, REFRESH_STORE_TTL}

\* The two signing secrets are configuration: distinct, or set to one value.
\* The refresh window is configuration too; here it has its default.
SecretConfigs ==
    { [JWT_SECRET |-> "k1", JWT_REFRESH_SECRET |-> "k2",
       REFRESH_TOKEN_EXPIRE_DAYS |-> REFRESH_TOKEN_EXPIRE_DAYS],
      [JWT_SECRET |-> "k1", JWT_REFRESH_SECRET |-> "k1",
       REFRESH_TOKEN_EXPIRE_DAYS |-> REFRESH_TOKEN_EXPIRE_DAYS] }

VARIABLES
    settings,   \* the signing secrets and the refresh window (app.config.settings)
    now,        \* datetime.utcnow(), in whole seconds
    ticks,      \* number of clock advances so far
    users,      \* the users table: set of [id, email, password_hash, role, is_active, verified]
    store,      \* Redis refresh_token:{uid}:{token} keys: set of [uid, tok, at]
    otp,        \* Redis password_reset:/email_verification: keys: set of [purpose, tok, uid, at]
    nextOtp,    \* number of one-time tokens drawn from secrets.token_urlsafe
    proc,       \* each handler's position and locals
    calls,      \* number of requests started
    resp,       \* the last response sent
    known,      \* every token ever returned to a caller
    rotated,    \* refresh tokens for which refresh_access_token has returned a new pair
    otpUses,    \* per one-time token: number of successful redemptions
    workspaces, \* the workspaces table: set of [id, slug, owner_id]
    members,    \* the workspace_members table: set of [id, workspace_id, user_id, role]
    nextId      \* number of workspace and member ids drawn from uuid4

vars == <<settings, now, ticks, users, store, otp, nextOtp, proc, calls, resp, known, rotated,
          otpUses, workspaces, members, nextId>>

\* The tables of the workspace service.
wsvars == <<workspaces, members, nextId>>

NoTok == [sub |-> 0, email |-> "", role |-> "", exp |-> 0, type |-> "none", key |-> ""]
None == NoTok

Idle == [pc |-> "idle", tok |-> NoTok, otp |-> 0, uid |-> 0, email |-> "", pw |-> "",
         newA |-> NoTok, newR |-> NoTok, keys |-> {},
         ws |-> 0, slug |-> <<>>, mid |-> 0, role |-> "",
         base |-> <<>>, counter |-> 0, name |-> <<>>,
         op |-> "", found |-> {}, data |-> {}]

\* A response: the operation, the HTTP status, the detail or message, the
\* user it was produced for (0: none) and the refresh token it carries.
NoResp == [op |-> "", code |-> 0, detail |-> "", sub |-> 0, new |-> NoTok,
           req |-> NoTok, data |-> {}]

\* req is the refresh token of the request body when the answer is that of a
\* logout, NoTok otherwise; data is the body of the answer of a workspace
\* read, empty otherwise.
Response(op, code, detail, sub, new) ==
    [op |-> op, code |-> code, detail |-> detail, sub |-> sub, new |-> new,
     req |-> NoTok, data |-> {}]

\* --------------------------------------------------------- utils/security.py
\* users.password_hash is NULL for an account that has no local password.
NoHash == <<>>

hash_password(password) == <<"argon2", password>>

verify_password(plain_password, hashed_password) ==
    hashed_password = <<"argon2", plain_password>>

create_access_token(data, t) ==
    [sub |-> data.sub, email |-> data.email, role |-> data.role,
     exp |-> t + ACCESS_TOKEN_EXPIRE_MINUTES * 60,
     type |-> "access", key |-> settings.JWT_SECRET]

create_refresh_token(data, t) ==
    [sub |-> data.sub, email |-> data.email, role |-> data.role,
     exp |-> t + settings.REFRESH_TOKEN_EXPIRE_DAYS * 86400,
     type |-> "refresh", key |-> settings.JWT_REFRESH_SECRET]

\* Variant: the expiry claim is not verified.
decode_token_NoExpiry(token, token_type, t) ==
    LET secret == IF token_type = "access" THEN settings.JWT_SECRET
                  ELSE settings.JWT_REFRESH_SECRET
    IN  IF token.key # secret THEN None
        ELSE IF token.type # token_type THEN None
        ELSE token

\* Variant: the type tag is not compared.
decode_token_NoType(token, token_type, t) ==
    LET secret == IF token_type = "access" THEN settings.JWT_SECRET
                  ELSE settings.JWT_REFRESH_SECRET
    IN  IF token.key # secret THEN None
        ELSE IF token.exp < t THEN None
        ELSE token

\* Variant: an access token is also looked up in the allow records of its subject.
decode_token_Stateful(token, token_type, t) ==
    LET secret == IF token_type = "access" THEN settings.JWT_SECRET
                  ELSE settings.JWT_REFRESH_SECRET
    IN  IF token.key # secret THEN None
        ELSE IF token.exp < t THEN None
        ELSE IF token.type # token_type THEN None
        ELSE IF token_type = "access" /\ ~(\E r \in store : r.uid = token.sub) THEN None
        ELSE token

\* jwt.decode raises JWTError on a bad signature and on exp < now; the type
\* tag is compared afterwards.  Every failure yields None.
decode_token(token, token_type, t) ==
    LET secret == IF token_type = "access" THEN settings.JWT_SECRET
                  ELSE settings.JWT_REFRESH_SECRET
    IN  IF token.key # secret THEN None
        ELSE IF token.exp < t THEN None
        ELSE IF token.type # token_type THEN None
        ELSE token

token_data(user) == [sub |-> user.id, email |-> user.email, role |-> user.role]

\* ------------------------------------------------------------ users table
UserByEmail(email) == {u \in users : u.email = email}
UserById(id) == {u \in users : u.id = id}

\* ------------------------------------------- refresh-token allow records
\* Variant: the key is built without the user id.
_store_refresh_token_NoUser(s, user_id, refresh_token, t) ==
    {r \in s : ~(r.uid = 0 /\ r.tok = refresh_token)}
        \cup {[uid |-> 0, tok |-> refresh_token, at |-> t + REFRESH_STORE_TTL]}

\* redis.setex overwrites the key and restarts its time-to-live.
_store_refresh_token(s, user_id, refresh_token, t) ==
    {r \in s : ~(r.uid = user_id /\ r.tok = refresh_token)}
        \cup {[uid |-> user_id, tok |-> refresh_token, at |-> t + REFRESH_STORE_TTL]}

\* Variant: the existence check matches on the user's key prefix only.
_check_refresh_token_AnyOfUser(s, user_id, refresh_token) ==
    \E r \in s : r.uid = user_id

_check_refresh_token(s, user_id, refresh_token) ==
    \E r \in s : r.uid = user_id /\ r.tok = refresh_token

\* Variant: the delete removes every key of the user.
_revoke_refresh_token_AllOfUser(s, user_id, refresh_token) ==
    {r \in s : r.uid # user_id}

\* Variant: the delete removes nothing.
_revoke_refresh_token_Noop(s, user_id, refresh_token) == s

_revoke_refresh_token(s, user_id, refresh_token) ==
    {r \in s : ~(r.uid = user_id /\ r.tok = refresh_token)}

\* redis.delete(*keys): removes the named keys, whatever their time-to-live.
_delete_keys(s, keys) ==
    {r \in s : ~(\E k \in keys : k.uid = r.uid /\ k.tok = r.tok)}

\* Variant: the match pattern lacks the trailing wildcard and matches no key.
_scan_keys_NoWildcard(s, user_id) ==
    {[uid |-> r.uid, tok |-> r.tok] : r \in {x \in s : x.uid = user_id /\ x.tok = NoTok}}

\* redis.scan(match="refresh_token:{user_id}:*"): the names of the user's keys.
_scan_keys(s, user_id) ==
    {[uid |-> r.uid, tok |-> r.tok] : r \in {x \in s : x.uid = user_id}}

\* --------------------------------------------------------- one-time tokens
OtpGet(purpose, token) == {m \in otp : m.purpose = purpose /\ m.tok = token}

OtpSetex(purpose, token, ttl, user_id) ==
    {m \in otp : ~(m.purpose = purpose /\ m.tok = token)}
        \cup {[purpose |-> purpose, tok |-> token, uid |-> user_id, at |-> now + ttl]}

OtpDelete(purpose, token) == {m \in otp : ~(m.purpose = purpose /\ m.tok = token)}

\* ------------------------------------------------------------------- Init
\* The row register_user inserts.
NewUser(id, email, password) ==
    [id |-> id, email |-> email, password_hash |-> hash_password(password),
     role |-> "user", is_active |-> TRUE, verified |-> FALSE,
     last_login_at |-> <<>>]

\* The users table at start: empty, or the rows left by earlier registrations.
SeedUsers ==
    { {},
      {NewUser(1, "a@x", "pw1")},
      {NewUser(1, "a@x", "pw1"), NewUser(2, "b@x", "pw1")} }

Init ==
    /\ settings \in SecretConfigs
    /\ now = 0
    /\ ticks = 0
    /\ users \in SeedUsers
    /\ store = {}
    /\ otp = {}
    /\ nextOtp = 0
    /\ proc = [p \in Procs |-> Idle]
    /\ calls = 0
    /\ resp = NoResp
    /\ known = {}
    /\ rotated = {}
    /\ otpUses = <<>>
    /\ workspaces = {}
    /\ members = {}
    /\ nextId = 0

\* A request is served by the first idle handler (the handlers are
\* interchangeable workers).
Begin(p) ==
    /\ proc[p].pc = "idle"
    /\ \A q \in Procs : q < p => proc[q].pc # "idle"
    /\ calls < MaxCalls
    /\ calls' = calls + 1

Reply(p, r) == /\ proc' = [proc EXCEPT ![p] = Idle]
               /\ resp' = r

Goto(p, rec) == /\ proc' = [proc EXCEPT ![p] = rec]
                /\ UNCHANGED resp

\* ---------------------------------------------------------- register_user
register_user(p, email, password) ==
    /\ Begin(p)
    /\ IF UserByEmail(email) # {}
       THEN Reply(p, Response("register", 400, "Email already registered", 0, NoTok))
       ELSE Goto(p, [Idle EXCEPT !.pc = "register_commit", !.email = email, !.pw = password])
    /\ UNCHANGED <<settings, now, ticks, users, store, otp, nextOtp, known, rotated, otpUses>>
    /\ UNCHANGED wsvars

\* Variant: the email column carries no unique constraint.
register_commit_NoUnique(p) ==
    /\ proc[p].pc = "register_commit"
    /\ users' = users \cup
           {NewUser(Cardinality(users) + 1, proc[p].email, proc[p].pw)}
    /\ Reply(p, Response("register", 201, "User registered successfully", 0, NoTok))
    /\ UNCHANGED <<settings, now, ticks, store, otp, nextOtp, calls, known, rotated, otpUses>>
    /\ UNCHANGED wsvars

\* db.add / db.commit: users.email is a unique column (models/user.py), so the
\* commit of a second row with the same email raises.
register_commit(p) ==
    /\ proc[p].pc = "register_commit"
    /\ IF UserByEmail(proc[p].email) # {}
       THEN /\ Reply(p, Response("register", 500, "IntegrityError", 0, NoTok))
            /\ UNCHANGED users
       ELSE /\ users' = users \cup
                  {NewUser(Cardinality(users) + 1, proc[p].email, proc[p].pw)}
            /\ Reply(p, Response("register", 201, "User registered successfully", 0, NoTok))
    /\ UNCHANGED <<settings, now, ticks, store, otp, nextOtp, calls, known, rotated, otpUses>>
    /\ UNCHANGED wsvars

\* ------------------------------------------------------ authenticate_user
\* Variant: the active flag is tested before the password.
authenticate_user_ActiveFirst(p, email, password) ==
    /\ Begin(p)
    /\ LET found == UserByEmail(email) IN
       IF found = {}
       THEN Reply(p, Response("login", 401, "Incorrect email or password", 0, NoTok))
       ELSE LET user == CHOOSE u \in found : TRUE IN
            IF ~user.is_active
            THEN Reply(p, Response("login", 403, "User account is inactive", 0, NoTok))
            ELSE IF user.password_hash = NoHash \/ ~verify_password(password, user.password_hash)
            THEN Reply(p, Response("login", 401, "Incorrect email or password", 0, NoTok))
            ELSE Goto(p, [Idle EXCEPT !.pc = "login_issue", !.uid = user.id,
                                       !.email = user.email, !.pw = password])
    /\ UNCHANGED <<settings, now, ticks, users, store, otp, nextOtp, known, rotated, otpUses>>
    /\ UNCHANGED wsvars

authenticate_user(p, email, password) ==
    /\ Begin(p)
    /\ LET found == UserByEmail(email) IN
       IF found = {}
       THEN Reply(p, Response("login", 401, "Incorrect email or password", 0, NoTok))
       ELSE LET user == CHOOSE u \in found : TRUE IN
            IF user.password_hash = NoHash \/ ~verify_password(password, user.password_hash)
            THEN Reply(p, Response("login", 401, "Incorrect email or password", 0, NoTok))
            ELSE IF ~user.is_active
            THEN Reply(p, Response("login", 403, "User account is inactive", 0, NoTok))
            ELSE Goto(p, [Idle EXCEPT !.pc = "login_issue", !.uid = user.id,
                                       !.email = user.email, !.pw = password])
    /\ UNCHANGED <<settings, now, ticks, users, store, otp, nextOtp, known, rotated, otpUses>>
    /\ UNCHANGED wsvars

\* commit of last_login_at, then the pair is created and the refresh token stored.
login_issue(p) ==
    /\ proc[p].pc = "login_issue"
    /\ LET data == token_data(CHOOSE u \in UserById(proc[p].uid) : TRUE)
           access_token == create_access_token(data, now)
           refresh_token == create_refresh_token(data, now)
       IN  /\ users' = {IF u.id = proc[p].uid THEN [u EXCEPT !.last_login_at = <<now>>]
                         ELSE u : u \in users}
           /\ store' = _store_refresh_token(store, proc[p].uid, refresh_token, now)
           /\ known' = known \cup {access_token, refresh_token}
           /\ Reply(p, Response("login", 200, "", proc[p].uid, refresh_token))
    /\ UNCHANGED <<settings, now, ticks, otp, nextOtp, calls, rotated, otpUses>>
    /\ UNCHANGED wsvars

\* --------------------------------------------------- refresh_access_token
\* What a caller can present: a token it was given, or one of those re-signed
\* with a key of its own.
Presentable ==
    known \cup {[t EXCEPT !.key = "forged"] : t \in {k \in known : k.type = "refresh"}}

\* Variant: the allow record is looked up before the token is decoded.
refresh_check_StoreFirst(refresh_token) ==
    IF ~_check_refresh_token(store, refresh_token.sub, refresh_token)
    THEN "Refresh token has been revoked"
    ELSE IF decode_token(refresh_token, "refresh", now) = None
    THEN "Invalid refresh token"
    ELSE ""

\* The token checks of refresh_access_token, in the order of the code: the
\* detail of the 401 they raise, or "" when the token passes them.
refresh_check(refresh_token) ==
    LET payload == decode_token(refresh_token, "refresh", now) IN
    IF payload = None THEN "Invalid refresh token"
    ELSE IF payload.sub = 0 THEN "Invalid token payload"
    ELSE IF ~_check_refresh_token(store, payload.sub, refresh_token)
    THEN "Refresh token has been revoked"
    ELSE ""

\* Variant: the allow record is checked and deleted in one store operation.
refresh_access_token_Atomic(p, refresh_token) ==
    /\ Begin(p)
    /\ LET detail == refresh_check(refresh_token) IN
       IF detail # ""
       THEN /\ Reply(p, Response("refresh", 401, detail, 0, NoTok))
            /\ UNCHANGED store
       ELSE /\ store' = _revoke_refresh_token(store, refresh_token.sub, refresh_token)
            /\ Goto(p, [Idle EXCEPT !.pc = "refresh_user", !.tok = refresh_token,
                                      !.uid = refresh_token.sub])
    /\ UNCHANGED <<settings, now, ticks, users, otp, nextOtp, known, rotated, otpUses>>
    /\ UNCHANGED wsvars

refresh_access_token(p, refresh_token) ==
    /\ Begin(p)
    /\ LET detail == refresh_check(refresh_token) IN
       IF detail # ""
       THEN Reply(p, Response("refresh", 401, detail, 0, NoTok))
       ELSE Goto(p, [Idle EXCEPT !.pc = "refresh_user", !.tok = refresh_token,
                                  !.uid = refresh_token.sub])
    /\ UNCHANGED <<settings, now, ticks, users, store, otp, nextOtp, known, rotated, otpUses>>
    /\ UNCHANGED wsvars

\* Variant: the old token is revoked before the user is looked up.
refresh_get_user_RevokeFirst(p) ==
    /\ proc[p].pc = "refresh_user"
    /\ store' = _revoke_refresh_token(store, proc[p].uid, proc[p].tok)
    /\ LET found == UserById(proc[p].uid) IN
       IF found = {} \/ (\E u \in found : ~u.is_active)
       THEN Reply(p, Response("refresh", 401, "User not found or inactive", proc[p].uid, NoTok))
       ELSE LET user == CHOOSE u \in found : TRUE IN
            Goto(p, [proc[p] EXCEPT !.pc = "refresh_revoke",
                                    !.newA = create_access_token(token_data(user), now),
                                    !.newR = create_refresh_token(token_data(user), now)])
    /\ UNCHANGED <<settings, now, ticks, users, otp, nextOtp, calls, known, rotated, otpUses>>
    /\ UNCHANGED wsvars

refresh_get_user(p) ==
    /\ proc[p].pc = "refresh_user"
    /\ LET found == UserById(proc[p].uid) IN
       IF found = {} \/ (\E u \in found : ~u.is_active)
       THEN Reply(p, Response("refresh", 401, "User not found or inactive", proc[p].uid, NoTok))
       ELSE LET user == CHOOSE u \in found : TRUE IN
            Goto(p, [proc[p] EXCEPT !.pc = "refresh_revoke",
                                    !.newA = create_access_token(token_data(user), now),
                                    !.newR = create_refresh_token(token_data(user), now)])
    /\ UNCHANGED <<settings, now, ticks, users, store, otp, nextOtp, calls, known, rotated, otpUses>>
    /\ UNCHANGED wsvars

\* Variant: the old token's record is left in place.
refresh_revoke_Keeps(p) ==
    /\ proc[p].pc = "refresh_revoke"
    /\ Goto(p, [proc[p] EXCEPT !.pc = "refresh_store"])
    /\ UNCHANGED <<settings, now, ticks, users, store, otp, nextOtp, calls, known, rotated, otpUses>>
    /\ UNCHANGED wsvars

refresh_revoke(p) ==
    /\ proc[p].pc = "refresh_revoke"
    /\ store' = _revoke_refresh_token(store, proc[p].uid, proc[p].tok)
    /\ Goto(p, [proc[p] EXCEPT !.pc = "refresh_store"])
    /\ UNCHANGED <<settings, now, ticks, users, otp, nextOtp, calls, known, rotated, otpUses>>
    /\ UNCHANGED wsvars

refresh_store(p) ==
    /\ proc[p].pc = "refresh_store"
    /\ store' = _store_refresh_token(store, proc[p].uid, proc[p].newR, now)
    /\ known' = known \cup {proc[p].newA, proc[p].newR}
    /\ rotated' = rotated \cup {proc[p].tok}
    /\ Reply(p, Response("refresh", 200, "", proc[p].uid, proc[p].newR))
    /\ UNCHANGED <<settings, now, ticks, users, otp, nextOtp, calls, otpUses>>
    /\ UNCHANGED wsvars

\* Variant: the is_active flag is not looked at.
get_current_user_SkipsActive(token) ==
    LET payload == decode_token(token, "access", now) IN
    IF payload = None
    THEN [code |-> 401, id |-> 0, detail |-> "Could not validate credentials"]
    ELSE IF payload.sub = 0
    THEN [code |-> 401, id |-> 0, detail |-> "Invalid token payload"]
    ELSE IF UserById(payload.sub) = {}
    THEN [code |-> 401, id |-> 0, detail |-> "User not found"]
    ELSE [code |-> 200, id |-> payload.sub, detail |-> ""]

\* ------------------------------------------------------------ api/deps.py
\* get_current_user / get_current_active_user: the status of the dependency
\* (200 with the user's id, or the rejection and its detail).
get_current_user(token) ==
    LET payload == decode_token(token, "access", now) IN
    IF payload = None
    THEN [code |-> 401, id |-> 0, detail |-> "Could not validate credentials"]
    ELSE IF payload.sub = 0
    THEN [code |-> 401, id |-> 0, detail |-> "Invalid token payload"]
    ELSE LET found == UserById(payload.sub) IN
         IF found = {}
         THEN [code |-> 401, id |-> 0, detail |-> "User not found"]
         ELSE IF \E u \in found : ~u.is_active
         THEN [code |-> 403, id |-> 0, detail |-> "User account is inactive"]
         ELSE [code |-> 200, id |-> payload.sub, detail |-> ""]

\* UserRole, and the role_hierarchy dictionary of role_checker read with
\* .get(role, 0).
Roles == {"super_admin", "admin", "user"}

role_hierarchy(role) ==
    CASE role = "super_admin" -> 3
      [] role = "admin" -> 2
      [] role = "user" -> 1
      [] OTHER -> 0

InsufficientPermissions(required_role) ==
    CASE required_role = "super_admin" -> "Insufficient permissions. Required role: super_admin"
      [] required_role = "admin" -> "Insufficient permissions. Required role: admin"
      [] OTHER -> "Insufficient permissions. Required role: user"

\* Variant: only the required role itself is admitted.
role_checker_Exact(user_role, required_role) ==
    IF role_hierarchy(user_role) # role_hierarchy(required_role)
    THEN [code |-> 403, detail |-> InsufficientPermissions(required_role)]
    ELSE [code |-> 200, detail |-> ""]

\* role_checker on an authenticated, active user: 200, or the 403 it raises.
role_checker(user_role, required_role) ==
    LET user_level == role_hierarchy(user_role)
        required_level == role_hierarchy(required_role)
    IN  IF user_level < required_level
        THEN [code |-> 403, detail |-> InsufficientPermissions(required_role)]
        ELSE [code |-> 200, detail |-> ""]

require_admin(user_role) == role_checker(user_role, "admin")

require_super_admin(user_role) == role_checker(user_role, "super_admin")

\* A request to a route that depends on require_role(required_role).
require_role(p, access_token, required_role) ==
    /\ Begin(p)
    /\ LET cur == get_current_user(access_token) IN
       IF cur.code # 200
       THEN Reply(p, Response("require_role", cur.code, cur.detail, 0, NoTok))
       ELSE LET current_user == CHOOSE u \in UserById(cur.id) : TRUE
                verdict == role_checker(current_user.role, required_role)
            IN  Reply(p, Response("require_role", verdict.code, verdict.detail,
                                  IF verdict.code = 200 THEN cur.id ELSE 0, NoTok))
    /\ UNCHANGED <<settings, now, ticks, users, store, otp, nextOtp, known, rotated, otpUses>>
    /\ UNCHANGED wsvars

\* GET /api/auth/me: the dependency's verdict, and the user when it admits.
get_current_user_info(p, access_token) ==
    /\ Begin(p)
    /\ LET cur == get_current_user(access_token) IN
       Reply(p, Response("me", cur.code, cur.detail, cur.id, NoTok))
    /\ UNCHANGED <<settings, now, ticks, users, store, otp, nextOtp, known, rotated, otpUses>>
    /\ UNCHANGED wsvars

\* ------------------------------------------------------------ logout_user
\* Variant: the record deleted is the one under the presented token's subject.
logout_ByTokenSubject(p, access_token, refresh_token) ==
    /\ Begin(p)
    /\ LET cur == get_current_user(access_token) IN
       IF cur.code # 200
       THEN /\ Reply(p, Response("logout", cur.code, cur.detail, 0, NoTok))
            /\ UNCHANGED store
       ELSE /\ store' = _revoke_refresh_token(store, refresh_token.sub, refresh_token)
            /\ Reply(p, [Response("logout", 200, "Logged out successfully", 0, NoTok)
                            EXCEPT !.req = refresh_token])
    /\ UNCHANGED <<settings, now, ticks, users, otp, nextOtp, known, rotated, otpUses>>
    /\ UNCHANGED wsvars

logout(p, access_token, refresh_token) ==
    /\ Begin(p)
    /\ LET cur == get_current_user(access_token) IN
       IF cur.code # 200
       THEN /\ Reply(p, Response("logout", cur.code, cur.detail, 0, NoTok))
            /\ UNCHANGED store
       ELSE /\ store' = _revoke_refresh_token(store, cur.id, refresh_token)
            /\ Reply(p, [Response("logout", 200, "Logged out successfully", 0, NoTok)
                            EXCEPT !.req = refresh_token])
    /\ UNCHANGED <<settings, now, ticks, users, otp, nextOtp, known, rotated, otpUses>>
    /\ UNCHANGED wsvars

\* ----------------------------------------------------------- verify_email
create_verification_token(p, user_id) ==
    /\ Begin(p)
    /\ nextOtp' = nextOtp + 1
    /\ otp' = OtpSetex("email_verification", nextOtp + 1, EMAIL_VERIFICATION_TTL, user_id)
    /\ otpUses' = Append(otpUses, 0)
    /\ Reply(p, Response("create_verification_token", 200, "", 0, NoTok))
    /\ UNCHANGED <<settings, now, ticks, users, store, known, rotated>>
    /\ UNCHANGED wsvars

verify_email(p, token) ==
    /\ Begin(p)
    /\ LET found == OtpGet("email_verification", token) IN
       IF found = {}
       THEN Reply(p, Response("verify_email", 400, "Invalid or expired verification token", 0, NoTok))
       ELSE Goto(p, [Idle EXCEPT !.pc = "verify_commit", !.otp = token,
                                  !.uid = (CHOOSE m \in found : TRUE).uid])
    /\ UNCHANGED <<settings, now, ticks, users, store, otp, nextOtp, known, rotated, otpUses>>
    /\ UNCHANGED wsvars

verify_commit(p) ==
    /\ proc[p].pc = "verify_commit"
    /\ IF UserById(proc[p].uid) = {}
       THEN /\ Reply(p, Response("verify_email", 404, "User not found", 0, NoTok))
            /\ UNCHANGED users
       ELSE /\ users' = {IF u.id = proc[p].uid THEN [u EXCEPT !.verified = TRUE] ELSE u : u \in users}
            /\ Goto(p, [proc[p] EXCEPT !.pc = "verify_delete"])
    /\ UNCHANGED <<settings, now, ticks, store, otp, nextOtp, calls, known, rotated, otpUses>>
    /\ UNCHANGED wsvars

verify_delete(p) ==
    /\ proc[p].pc = "verify_delete"
    /\ otp' = OtpDelete("email_verification", proc[p].otp)
    /\ otpUses' = [otpUses EXCEPT ![proc[p].otp] = @ + 1]
    /\ Reply(p, Response("verify_email", 200, "Email verified successfully",
                         proc[p].uid, NoTok))
    /\ UNCHANGED <<settings, now, ticks, users, store, nextOtp, calls, known, rotated>>
    /\ UNCHANGED wsvars

\* -------------------------------- forgot_password / create_password_reset_token
GenericForgotMessage == "If the email exists, a password reset link has been sent."

create_password_reset_token(email) ==
    LET found == UserByEmail(email) IN
    IF found = {}
    THEN UNCHANGED <<otp, nextOtp, otpUses>>
    ELSE /\ nextOtp' = nextOtp + 1
         /\ otp' = OtpSetex("password_reset", nextOtp + 1, PASSWORD_RESET_TTL,
                            (CHOOSE u \in found : TRUE).id)
         /\ otpUses' = Append(otpUses, 0)

\* Variant: an unknown email is answered with 404.
forgot_password_Reveals(p, email) ==
    /\ Begin(p)
    /\ create_password_reset_token(email)
    /\ IF UserByEmail(email) = {}
       THEN Reply(p, Response("forgot_password", 404, "User not found", 0, NoTok))
       ELSE Reply(p, Response("forgot_password", 200, GenericForgotMessage, 0, NoTok))
    /\ UNCHANGED <<settings, now, ticks, users, store, known, rotated>>
    /\ UNCHANGED wsvars

forgot_password(p, email) ==
    /\ Begin(p)
    /\ create_password_reset_token(email)
    /\ Reply(p, Response("forgot_password", 200, GenericForgotMessage, 0, NoTok))
    /\ UNCHANGED <<settings, now, ticks, users, store, known, rotated>>
    /\ UNCHANGED wsvars

\* --------------------------------------------------------- reset_password
reset_password(p, token, new_password) ==
    /\ Begin(p)
    /\ LET found == OtpGet("password_reset", token) IN
       IF found = {}
       THEN Reply(p, Response("reset_password", 400, "Invalid or expired reset token", 0, NoTok))
       ELSE Goto(p, [Idle EXCEPT !.pc = "reset_commit", !.otp = token, !.pw = new_password,
                                  !.uid = (CHOOSE m \in found : TRUE).uid])
    /\ UNCHANGED <<settings, now, ticks, users, store, otp, nextOtp, known, rotated, otpUses>>
    /\ UNCHANGED wsvars

reset_commit(p) ==
    /\ proc[p].pc = "reset_commit"
    /\ IF UserById(proc[p].uid) = {}
       THEN /\ Reply(p, Response("reset_password", 404, "User not found", 0, NoTok))
            /\ UNCHANGED users
       ELSE /\ users' = {IF u.id = proc[p].uid
                         THEN [u EXCEPT !.password_hash = hash_password(proc[p].pw)]
                         ELSE u : u \in users}
            /\ Goto(p, [proc[p] EXCEPT !.pc = "reset_delete"])
    /\ UNCHANGED <<settings, now, ticks, store, otp, nextOtp, calls, known, rotated, otpUses>>
    /\ UNCHANGED wsvars

\* Variant: the reset token is left in the store.
reset_delete_KeepsToken(p) ==
    /\ proc[p].pc = "reset_delete"
    /\ Goto(p, [proc[p] EXCEPT !.pc = "reset_scan"])
    /\ UNCHANGED <<settings, now, ticks, users, store, otp, nextOtp, calls, known, rotated, otpUses>>
    /\ UNCHANGED wsvars

reset_delete(p) ==
    /\ proc[p].pc = "reset_delete"
    /\ otp' = OtpDelete("password_reset", proc[p].otp)
    /\ Goto(p, [proc[p] EXCEPT !.pc = "reset_scan"])
    /\ UNCHANGED <<settings, now, ticks, users, store, nextOtp, calls, known, rotated, otpUses>>
    /\ UNCHANGED wsvars

ResetDone(p) ==
    /\ otpUses' = [otpUses EXCEPT ![proc[p].otp] = @ + 1]
    /\ Reply(p, Response("reset_password", 200, "Password reset successfully",
                         proc[p].uid, NoTok))

\* _revoke_all_refresh_tokens: one SCAN pass that returns the user's keys with
\* cursor 0, then the DELETE of those keys when there are any.
_revoke_all_scan(p) ==
    /\ proc[p].pc = "reset_scan"
    /\ LET keys == _scan_keys(store, proc[p].uid) IN
       IF keys = {}
       THEN ResetDone(p)
       ELSE /\ Goto(p, [proc[p] EXCEPT !.pc = "reset_revoke", !.keys = keys])
            /\ UNCHANGED otpUses
    /\ UNCHANGED <<settings, now, ticks, users, store, otp, nextOtp, calls, known, rotated>>
    /\ UNCHANGED wsvars

_revoke_all_delete(p) ==
    /\ proc[p].pc = "reset_revoke"
    /\ store' = _delete_keys(store, proc[p].keys)
    /\ ResetDone(p)
    /\ UNCHANGED <<settings, now, ticks, users, otp, nextOtp, calls, known, rotated>>
    /\ UNCHANGED wsvars

\* -------------------------------------------------------- change_password
change_password(p, access_token, current_password, new_password) ==
    /\ Begin(p)
    /\ LET cur == get_current_user(access_token) IN
       IF cur.code # 200
       THEN /\ Reply(p, Response("change_password", cur.code, cur.detail, 0, NoTok))
            /\ UNCHANGED users
       ELSE LET user == CHOOSE u \in UserById(cur.id) : TRUE IN
            IF user.password_hash = NoHash
                   \/ ~verify_password(current_password, user.password_hash)
            THEN /\ Reply(p, Response("change_password", 400, "Current password is incorrect", 0, NoTok))
                 /\ UNCHANGED users
            ELSE /\ users' = {IF u.id = cur.id
                              THEN [u EXCEPT !.password_hash = hash_password(new_password)]
                              ELSE u : u \in users}
                 /\ Reply(p, Response("change_password", 200, "Password changed successfully",
                                      cur.id, NoTok))
    /\ UNCHANGED <<settings, now, ticks, store, otp, nextOtp, known, rotated, otpUses>>
    /\ UNCHANGED wsvars

\* ---------------------------------------------------- services/workspace.py
authvars == <<settings, now, ticks, users, store, otp, nextOtp, known, rotated, otpUses>>

WorkspaceRoles == {"owner", "admin", "member", "viewer"}

\* A text is a sequence of pieces: a run of word characters ("acme", "Acme",
\* "1", "_") or one other character (" ", "-", "!"). <<"acme", "-", "1">> is
\* "acme-1".
WordPieces == {"acme", "1", "2", "3", "4", "5", "_"}
SeparatorPieces == {" ", "_", "-"}

\* str.lower()
lower(text) == [i \in 1..Len(text) |-> IF text[i] = "Acme" THEN "acme" ELSE text[i]]

\* re.sub(r'[^\w\s-]', '', text)
DropOthers(text) ==
    LET Keep(c) == c \in WordPieces \cup SeparatorPieces IN SelectSeq(text, Keep)

\* re.sub(r'[\s_-]+', '-', text): every run of separators becomes one "-".
RECURSIVE JoinRuns(_)
JoinRuns(text) ==
    IF text = <<>> THEN <<>>
    ELSE IF Head(text) \in SeparatorPieces
    THEN IF Tail(text) # <<>> /\ Head(Tail(text)) \in SeparatorPieces
         THEN JoinRuns(Tail(text))
         ELSE <<"-">> \o JoinRuns(Tail(text))
    ELSE <<Head(text)>> \o JoinRuns(Tail(text))

\* re.sub(r'^-+|-+$', '', text)
RECURSIVE StripDashes(_)
StripDashes(text) ==
    IF text = <<>> THEN <<>>
    ELSE IF Head(text) = "-" THEN StripDashes(Tail(text))
    ELSE IF text[Len(text)] = "-" THEN StripDashes(SubSeq(text, 1, Len(text) - 1))
    ELSE text

_slugify(text) == StripDashes(JoinRuns(DropOthers(lower(text))))

\* f"{slug}-{counter}"
Digits == <<"1", "2", "3", "4", "5">>
SlugWithCounter(slug, counter) == slug \o <<"-", Digits[counter]>>

WorkspaceBySlug(slug) == {w \in workspaces : w.slug = slug}

get_workspace(workspace_id) == {w \in workspaces : w.id = workspace_id}

\* The slug create_workspace settles on: the requested one when it is free,
\* otherwise the first of slug-1, slug-2, ... that is.
FreeSlug(slug) ==
    IF WorkspaceBySlug(slug) = {} THEN slug
    ELSE LET counter == CHOOSE c \in 1..(Cardinality(workspaces) + 1) :
                            /\ WorkspaceBySlug(SlugWithCounter(slug, c)) = {}
                            /\ \A d \in 1..(c - 1) :
                                  WorkspaceBySlug(SlugWithCounter(slug, d)) # {}
         IN  SlugWithCounter(slug, counter)

check_workspace_permission(workspace_id, user_id, required_roles) ==
    \E m \in members :
        /\ m.workspace_id = workspace_id
        /\ m.user_id = user_id
        /\ (required_roles # {} => m.role \in required_roles)

\* POST /workspaces: the first query of the slug search; slug <<>> is a body
\* without slug. The search, one query a step, is followed by the insert of
\* the workspace and of the owner's membership in one transaction.
create_workspace(p, access_token, name, slug) ==
    /\ Begin(p)
    /\ LET cur == get_current_user(access_token)
           base == IF slug # <<>> THEN slug ELSE _slugify(name)
       IN  IF cur.code # 200
           THEN Reply(p, Response("create_workspace", cur.code, cur.detail, 0, NoTok))
           ELSE IF WorkspaceBySlug(base) = {}
           THEN Goto(p, [Idle EXCEPT !.pc = "create_workspace_commit", !.uid = cur.id,
                                      !.name = name, !.base = base, !.slug = base])
           ELSE Goto(p, [Idle EXCEPT !.pc = "create_workspace_search", !.uid = cur.id,
                                      !.name = name, !.base = base, !.slug = base,
                                      !.counter = 1])
    /\ UNCHANGED authvars
    /\ UNCHANGED wsvars

\* One turn of the while loop: the query for slug-counter.
create_workspace_search(p) ==
    /\ proc[p].pc = "create_workspace_search"
    /\ LET new_slug == SlugWithCounter(proc[p].base, proc[p].counter) IN
       IF WorkspaceBySlug(new_slug) = {}
       THEN Goto(p, [proc[p] EXCEPT !.pc = "create_workspace_commit", !.slug = new_slug])
       ELSE Goto(p, [proc[p] EXCEPT !.counter = @ + 1])
    /\ UNCHANGED authvars
    /\ UNCHANGED calls
    /\ UNCHANGED wsvars

\* Variant: the slug column has no unique index.
create_workspace_commit_NoUnique(p) ==
    /\ proc[p].pc = "create_workspace_commit"
    /\ workspaces' = workspaces \cup
           {[id |-> nextId + 1, name |-> proc[p].name, slug |-> proc[p].slug,
                    owner_id |-> proc[p].uid]}
    /\ members' = members \cup
           {[id |-> nextId + 2, workspace_id |-> nextId + 1,
             user_id |-> proc[p].uid, role |-> "owner"]}
    /\ nextId' = nextId + 2
    /\ Reply(p, Response("create_workspace", 201, "", proc[p].uid, NoTok))
    /\ UNCHANGED authvars
    /\ UNCHANGED calls

\* workspaces.slug is a unique column: the commit of a second row with the
\* same slug raises.
create_workspace_commit(p) ==
    /\ proc[p].pc = "create_workspace_commit"
    /\ IF WorkspaceBySlug(proc[p].slug) # {}
       THEN /\ Reply(p, Response("create_workspace", 500, "IntegrityError", 0, NoTok))
            /\ UNCHANGED wsvars
       ELSE /\ workspaces' = workspaces \cup
                  {[id |-> nextId + 1, name |-> proc[p].name, slug |-> proc[p].slug,
                    owner_id |-> proc[p].uid]}
            /\ members' = members \cup
                  {[id |-> nextId + 2, workspace_id |-> nextId + 1,
                    user_id |-> proc[p].uid, role |-> "owner"]}
            /\ nextId' = nextId + 2
            /\ Reply(p, Response("create_workspace", 201, "", proc[p].uid, NoTok))
    /\ UNCHANGED authvars
    /\ UNCHANGED calls

\* Variant: the caller's membership is not looked up.
update_workspace_NoPermission(p, access_token, workspace_id, name) ==
    /\ Begin(p)
    /\ LET cur == get_current_user(access_token) IN
       IF cur.code # 200
       THEN Reply(p, Response("update_workspace", cur.code, cur.detail, 0, NoTok))
       ELSE IF get_workspace(workspace_id) = {}
       THEN Reply(p, Response("update_workspace", 404, "Workspace not found", 0, NoTok))
       ELSE Goto(p, [Idle EXCEPT !.pc = "update_workspace_commit", !.uid = cur.id,
                                  !.ws = workspace_id, !.name = name])
    /\ UNCHANGED authvars
    /\ UNCHANGED wsvars

\* PATCH /workspaces/{workspace_id} with a new name.
update_workspace(p, access_token, workspace_id, name) ==
    /\ Begin(p)
    /\ LET cur == get_current_user(access_token) IN
       IF cur.code # 200
       THEN Reply(p, Response("update_workspace", cur.code, cur.detail, 0, NoTok))
       ELSE IF get_workspace(workspace_id) = {}
       THEN Reply(p, Response("update_workspace", 404, "Workspace not found", 0, NoTok))
       ELSE IF ~check_workspace_permission(workspace_id, cur.id, {"owner", "admin"})
       THEN Reply(p, Response("update_workspace", 403, "Insufficient permissions", 0, NoTok))
       ELSE Goto(p, [Idle EXCEPT !.pc = "update_workspace_commit", !.uid = cur.id,
                                  !.ws = workspace_id, !.name = name])
    /\ UNCHANGED authvars
    /\ UNCHANGED wsvars

\* The UPDATE of the row; it raises when the row has been deleted meanwhile.
update_workspace_commit(p) ==
    /\ proc[p].pc = "update_workspace_commit"
    /\ IF get_workspace(proc[p].ws) = {}
       THEN /\ Reply(p, Response("update_workspace", 500, "StaleDataError", 0, NoTok))
            /\ UNCHANGED workspaces
       ELSE /\ workspaces' = {IF w.id = proc[p].ws THEN [w EXCEPT !.name = proc[p].name]
                                ELSE w : w \in workspaces}
            /\ Reply(p, Response("update_workspace", 200, "", proc[p].uid, NoTok))
    /\ UNCHANGED authvars
    /\ UNCHANGED <<calls, members, nextId>>

\* DELETE /workspaces/{workspace_id}
delete_workspace(p, access_token, workspace_id) ==
    /\ Begin(p)
    /\ LET cur == get_current_user(access_token) IN
       IF cur.code # 200
       THEN Reply(p, Response("delete_workspace", cur.code, cur.detail, 0, NoTok))
       ELSE IF get_workspace(workspace_id) = {}
       THEN Reply(p, Response("delete_workspace", 404, "Workspace not found", 0, NoTok))
       ELSE IF \E w \in get_workspace(workspace_id) : w.owner_id # cur.id
       THEN Reply(p, Response("delete_workspace", 403,
                              "Only workspace owner can delete the workspace", 0, NoTok))
       ELSE Goto(p, [Idle EXCEPT !.pc = "delete_workspace_commit", !.uid = cur.id,
                                  !.ws = workspace_id])
    /\ UNCHANGED authvars
    /\ UNCHANGED wsvars

\* The delete of the row; its workspace_members rows go with it (ON DELETE CASCADE).
delete_workspace_commit(p) ==
    /\ proc[p].pc = "delete_workspace_commit"
    /\ workspaces' = {w \in workspaces : w.id # proc[p].ws}
    /\ members' = {m \in members : m.workspace_id # proc[p].ws}
    /\ Reply(p, Response("delete_workspace", 204, "", proc[p].uid, NoTok))
    /\ UNCHANGED authvars
    /\ UNCHANGED <<calls, nextId>>

\* POST /workspaces/{workspace_id}/members; user_id 0 is a body without user_id.
add_member(p, access_token, workspace_id, user_id, role) ==
    /\ Begin(p)
    /\ LET cur == get_current_user(access_token) IN
       IF cur.code # 200
       THEN Reply(p, Response("add_member", cur.code, cur.detail, 0, NoTok))
       ELSE IF get_workspace(workspace_id) = {}
       THEN Reply(p, Response("add_member", 404, "Workspace not found", 0, NoTok))
       ELSE IF ~check_workspace_permission(workspace_id, cur.id, {"owner", "admin"})
       THEN Reply(p, Response("add_member", 403,
                              "Insufficient permissions to add members", 0, NoTok))
       ELSE IF user_id = 0
       THEN Reply(p, Response("add_member", 400, "user_id is required", 0, NoTok))
       ELSE IF UserById(user_id) = {}
       THEN Reply(p, Response("add_member", 404, "User not found", 0, NoTok))
       ELSE IF \E m \in members : m.workspace_id = workspace_id /\ m.user_id = user_id
       THEN Reply(p, Response("add_member", 400, "User is already a member", 0, NoTok))
       ELSE Goto(p, [Idle EXCEPT !.pc = "add_member_commit", !.ws = workspace_id,
                                  !.uid = user_id, !.role = role])
    /\ UNCHANGED authvars
    /\ UNCHANGED wsvars

\* The insert: (workspace_id, user_id) is unique and workspace_id is a foreign
\* key, so the commit raises when the pair or the workspace's absence got in first.
add_member_commit(p) ==
    /\ proc[p].pc = "add_member_commit"
    /\ IF \/ get_workspace(proc[p].ws) = {}
          \/ \E m \in members : m.workspace_id = proc[p].ws /\ m.user_id = proc[p].uid
       THEN /\ Reply(p, Response("add_member", 500, "IntegrityError", 0, NoTok))
            /\ UNCHANGED <<members, nextId>>
       ELSE /\ members' = members \cup
                  {[id |-> nextId + 1, workspace_id |-> proc[p].ws,
                    user_id |-> proc[p].uid, role |-> proc[p].role]}
            /\ nextId' = nextId + 1
            /\ Reply(p, Response("add_member", 201, "", proc[p].uid, NoTok))
    /\ UNCHANGED authvars
    /\ UNCHANGED <<calls, workspaces>>

\* Variant: the role of the membership is not looked at.
remove_member_NoOwnerCheck(p, access_token, workspace_id, member_id) ==
    /\ Begin(p)
    /\ LET cur == get_current_user(access_token)
           member == {m \in members : m.workspace_id = workspace_id /\ m.id = member_id}
       IN  IF cur.code # 200
           THEN Reply(p, Response("remove_member", cur.code, cur.detail, 0, NoTok))
           ELSE IF member = {}
           THEN Reply(p, Response("remove_member", 404, "Member not found", 0, NoTok))
           ELSE IF ~check_workspace_permission(workspace_id, cur.id, {"owner", "admin"})
           THEN Reply(p, Response("remove_member", 403, "Insufficient permissions", 0, NoTok))
           ELSE Goto(p, [Idle EXCEPT !.pc = "remove_member_commit", !.uid = cur.id,
                                      !.ws = workspace_id, !.mid = member_id])
    /\ UNCHANGED authvars
    /\ UNCHANGED wsvars

\* DELETE /workspaces/{workspace_id}/members/{member_id}
remove_member(p, access_token, workspace_id, member_id) ==
    /\ Begin(p)
    /\ LET cur == get_current_user(access_token)
           member == {m \in members : m.workspace_id = workspace_id /\ m.id = member_id}
       IN  IF cur.code # 200
           THEN Reply(p, Response("remove_member", cur.code, cur.detail, 0, NoTok))
           ELSE IF member = {}
           THEN Reply(p, Response("remove_member", 404, "Member not found", 0, NoTok))
           ELSE IF \E m \in member : m.role = "owner"
           THEN Reply(p, Response("remove_member", 400, "Cannot remove workspace owner",
                                  0, NoTok))
           ELSE IF ~check_workspace_permission(workspace_id, cur.id, {"owner", "admin"})
           THEN Reply(p, Response("remove_member", 403, "Insufficient permissions", 0, NoTok))
           ELSE Goto(p, [Idle EXCEPT !.pc = "remove_member_commit", !.uid = cur.id,
                                      !.ws = workspace_id, !.mid = member_id])
    /\ UNCHANGED authvars
    /\ UNCHANGED wsvars

remove_member_commit(p) ==
    /\ proc[p].pc = "remove_member_commit"
    /\ members' = {m \in members : m.id # proc[p].mid}
    /\ Reply(p, Response("remove_member", 204, "", proc[p].uid, NoTok))
    /\ UNCHANGED authvars
    /\ UNCHANGED <<calls, workspaces, nextId>>

\* ------------------------------------------------------- workspace reads
\* The lists the service returns are modelled as sets: their order (created_at)
\* plays no part in what follows.
get_user_workspaces(user_id) ==
    {w \in workspaces : \E m \in members : m.workspace_id = w.id /\ m.user_id = user_id}

get_workspace_members(workspace_id) == {m \in members : m.workspace_id = workspace_id}

\* The role of the membership, "" for None.
get_user_workspace_role(workspace_id, user_id) ==
    LET member == {m \in members : m.workspace_id = workspace_id /\ m.user_id = user_id}
    IN  IF member = {} THEN "" ELSE (CHOOSE m \in member : TRUE).role

NoAccess(op) == Response(op, 403, "You do not have access to this workspace", 0, NoTok)

\* GET /workspaces: the join query, then one role query for each workspace found.
list_workspaces(p, access_token) ==
    /\ Begin(p)
    /\ LET cur == get_current_user(access_token) IN
       IF cur.code # 200
       THEN Reply(p, Response("list_workspaces", cur.code, cur.detail, 0, NoTok))
       ELSE IF get_user_workspaces(cur.id) = {}
       THEN Reply(p, Response("list_workspaces", 200, "", cur.id, NoTok))
       ELSE Goto(p, [Idle EXCEPT !.pc = "list_workspaces_role", !.uid = cur.id,
                                  !.found = get_user_workspaces(cur.id)])
    /\ UNCHANGED authvars
    /\ UNCHANGED wsvars

list_workspaces_role(p) ==
    /\ proc[p].pc = "list_workspaces_role"
    /\ LET workspace == CHOOSE w \in proc[p].found : \A x \in proc[p].found : x.id <= w.id
           role == get_user_workspace_role(workspace.id, proc[p].uid)
           result == proc[p].data \cup {[workspace |-> workspace, user_role |-> role]}
       IN  IF proc[p].found = {workspace}
           THEN Reply(p, [Response("list_workspaces", 200, "", proc[p].uid, NoTok)
                            EXCEPT !.data = result])
           ELSE Goto(p, [proc[p] EXCEPT !.found = @ \ {workspace}, !.data = result])
    /\ UNCHANGED authvars
    /\ UNCHANGED calls
    /\ UNCHANGED wsvars

\* GET /workspaces/{workspace_id}: the membership check.
api_get_workspace(p, access_token, workspace_id) ==
    /\ Begin(p)
    /\ LET cur == get_current_user(access_token) IN
       IF cur.code # 200
       THEN Reply(p, Response("get_workspace", cur.code, cur.detail, 0, NoTok))
       ELSE IF ~check_workspace_permission(workspace_id, cur.id, {})
       THEN Reply(p, NoAccess("get_workspace"))
       ELSE Goto(p, [Idle EXCEPT !.pc = "get_workspace_fetch", !.op = "get_workspace",
                                  !.uid = cur.id, !.ws = workspace_id])
    /\ UNCHANGED authvars
    /\ UNCHANGED wsvars

\* service.get_workspace after the check
get_workspace_fetch(p) ==
    /\ proc[p].pc = "get_workspace_fetch"
    /\ IF get_workspace(proc[p].ws) = {}
       THEN Reply(p, Response("get_workspace", 404, "Workspace not found", 0, NoTok))
       ELSE Goto(p, [proc[p] EXCEPT !.pc = "workspace_role",
                                    !.found = get_workspace(proc[p].ws)])
    /\ UNCHANGED authvars
    /\ UNCHANGED calls
    /\ UNCHANGED wsvars

\* GET /workspaces/by-slug/{slug}: the lookup of the workspace.
get_workspace_by_slug(p, access_token, slug) ==
    /\ Begin(p)
    /\ LET cur == get_current_user(access_token) IN
       IF cur.code # 200
       THEN Reply(p, Response("get_workspace_by_slug", cur.code, cur.detail, 0, NoTok))
       ELSE IF WorkspaceBySlug(slug) = {}
       THEN Reply(p, Response("get_workspace_by_slug", 404, "Workspace not found", 0, NoTok))
       ELSE Goto(p, [Idle EXCEPT !.pc = "by_slug_check", !.op = "get_workspace_by_slug",
                                  !.uid = cur.id, !.found = WorkspaceBySlug(slug),
                                  !.ws = (CHOOSE w \in WorkspaceBySlug(slug) : TRUE).id])
    /\ UNCHANGED authvars
    /\ UNCHANGED wsvars

\* Variant: the membership of the caller is not looked up.
by_slug_check_NoCheck(p) ==
    /\ proc[p].pc = "by_slug_check"
    /\ Goto(p, [proc[p] EXCEPT !.pc = "workspace_role"])
    /\ UNCHANGED authvars
    /\ UNCHANGED calls
    /\ UNCHANGED wsvars

\* the membership check of get_workspace_by_slug
by_slug_check(p) ==
    /\ proc[p].pc = "by_slug_check"
    /\ IF ~check_workspace_permission(proc[p].ws, proc[p].uid, {})
       THEN Reply(p, NoAccess("get_workspace_by_slug"))
       ELSE Goto(p, [proc[p] EXCEPT !.pc = "workspace_role"])
    /\ UNCHANGED authvars
    /\ UNCHANGED calls
    /\ UNCHANGED wsvars

\* get_user_workspace_role, in get_workspace and get_workspace_by_slug
workspace_role(p) ==
    /\ proc[p].pc = "workspace_role"
    /\ Goto(p, [proc[p] EXCEPT !.pc = "workspace_members",
                                !.role = get_user_workspace_role(proc[p].ws, proc[p].uid)])
    /\ UNCHANGED authvars
    /\ UNCHANGED calls
    /\ UNCHANGED wsvars

\* get_workspace_members and the WorkspaceResponse
workspace_members(p) ==
    /\ proc[p].pc = "workspace_members"
    /\ Reply(p, [Response(proc[p].op, 200, "", proc[p].uid, NoTok)
                    EXCEPT !.data = {[workspace |-> w,
                                      members |-> get_workspace_members(proc[p].ws),
                                      user_role |-> proc[p].role] : w \in proc[p].found}])
    /\ UNCHANGED authvars
    /\ UNCHANGED calls
    /\ UNCHANGED wsvars

\* GET /workspaces/{workspace_id}/members: the membership check.
list_workspace_members(p, access_token, workspace_id) ==
    /\ Begin(p)
    /\ LET cur == get_current_user(access_token) IN
       IF cur.code # 200
       THEN Reply(p, Response("list_workspace_members", cur.code, cur.detail, 0, NoTok))
       ELSE IF ~check_workspace_permission(workspace_id, cur.id, {})
       THEN Reply(p, NoAccess("list_workspace_members"))
       ELSE Goto(p, [Idle EXCEPT !.pc = "list_members_fetch", !.uid = cur.id,
                                  !.ws = workspace_id])
    /\ UNCHANGED authvars
    /\ UNCHANGED wsvars

list_members_fetch(p) ==
    /\ proc[p].pc = "list_members_fetch"
    /\ Reply(p, [Response("list_workspace_members", 200, "", proc[p].uid, NoTok)
                    EXCEPT !.data = get_workspace_members(proc[p].ws)])
    /\ UNCHANGED authvars
    /\ UNCHANGED calls
    /\ UNCHANGED wsvars

\* ------------------------------------------------------------ environment
\* An account is deactivated (users.is_active set to false outside the service).
Deactivate(id) ==
    /\ \E u \in users : u.id = id /\ u.is_active
    /\ users' = {IF u.id = id THEN [u EXCEPT !.is_active = FALSE] ELSE u : u \in users}
    /\ UNCHANGED <<settings, now, ticks, store, otp, nextOtp, proc, calls, resp, known, rotated, otpUses>>
    /\ UNCHANGED wsvars

\* The clock advances; Redis drops the keys whose time-to-live has run out.
Tick(d) ==
    /\ ticks < MaxTicks
    /\ ticks' = ticks + 1
    /\ now' = now + d
    /\ store' = {r \in store : r.at > now + d}
    /\ otp' = {m \in otp : m.at > now + d}
    /\ UNCHANGED <<settings, users, nextOtp, proc, calls, resp, known, rotated, otpUses>>
    /\ UNCHANGED wsvars

\* ------------------------------------------------------------------- Next
Step(p) ==
    \/ \E e \in Emails, w \in Passwords : register_user(p, e, w)
    \/ register_commit(p)
    \/ \E e \in Emails, w \in Passwords : authenticate_user(p, e, w)
    \/ login_issue(p)
    \/ \E t \in Presentable : refresh_access_token(p, t)
    \/ refresh_get_user(p)
    \/ refresh_revoke(p)
    \/ refresh_store(p)
    \/ \E a \in Presentable : get_current_user_info(p, a)
    \/ \E a \in known, t \in known : logout(p, a, t)
    \/ \E u \in users : create_verification_token(p, u.id)
    \/ \E o \in 1..nextOtp : verify_email(p, o)
    \/ verify_commit(p)
    \/ verify_delete(p)
    \/ \E e \in Emails : forgot_password(p, e)
    \/ \E o \in 1..nextOtp, w \in Passwords : reset_password(p, o, w)
    \/ reset_commit(p)
    \/ reset_delete(p)
    \/ _revoke_all_scan(p)
    \/ _revoke_all_delete(p)
    \/ \E a \in known, c \in Passwords, w \in Passwords : change_password(p, a, c, w)

Env ==
    \/ \E u \in users : Deactivate(u.id)
    \/ \E d \in TickSteps : Tick(d)

Next == (\E p \in Procs : Step(p)) \/ Env

Spec == Init /\ [][Next]_vars

\* Requests served one at a time: a handler takes a step only while every
\* other handler is idle.
Alone(p) == \A q \in Procs \ {p} : proc[q].pc = "idle"

NextSeq == (\E p \in Procs : Alone(p) /\ Step(p)) \/ Env

SpecSeq == Init /\ [][NextSeq]_vars

\* Issuing and rotating under a configured refresh window: the deployment sets
\* REFRESH_TOKEN_EXPIRE_DAYS to one day, to its default, or to thirty days.
ExpireDaysConfigs ==
    { [JWT_SECRET |-> "k1", JWT_REFRESH_SECRET |-> "k2", REFRESH_TOKEN_EXPIRE_DAYS |-> d] :
          d \in {1, REFRESH_TOKEN_EXPIRE_DAYS, 30} }

InitCfg ==
    /\ settings \in ExpireDaysConfigs
    /\ now = 0
    /\ ticks = 0
    /\ users = {NewUser(1, "a@x", "pw1")}
    /\ store = {}
    /\ otp = {}
    /\ nextOtp = 0
    /\ proc = [p \in Procs |-> Idle]
    /\ calls = 0
    /\ resp = NoResp
    /\ known = {}
    /\ rotated = {}
    /\ otpUses = <<>>
    /\ workspaces = {}
    /\ members = {}
    /\ nextId = 0

StepCfg(p) ==
    \/ \E e \in Emails, w \in Passwords : authenticate_user(p, e, w)
    \/ login_issue(p)
    \/ \E t \in Presentable : refresh_access_token(p, t)
    \/ refresh_get_user(p)
    \/ refresh_revoke(p)
    \/ refresh_store(p)

NextCfg == (\E p \in Procs : StepCfg(p)) \/ (\E d \in TickSteps : Tick(d))

SpecCfg == InitCfg /\ [][NextCfg]_vars

\* The request dependencies on their own: the users table holds rows of any
\* role, active or not; access tokens were issued to users 1 and 2, and the row
\* of user 2 may have been deleted since.
DepsRow(id, email, role, active) ==
    [NewUser(id, email, "pw1") EXCEPT !.role = role, !.is_active = active]

DepsUsers ==
    { {DepsRow(1, "a@x", r, b)} \cup other :
          r \in Roles, b \in BOOLEAN, other \in {{}, {DepsRow(2, "b@x", "user", TRUE)}} }

InitDeps ==
    /\ settings \in SecretConfigs
    /\ now = 0
    /\ ticks = 0
    /\ users \in DepsUsers
    /\ store = {}
    /\ otp = {}
    /\ nextOtp = 0
    /\ proc = [p \in Procs |-> Idle]
    /\ calls = 0
    /\ resp = NoResp
    /\ known = UNION { {create_access_token(token_data(u), 0),
                        create_refresh_token(token_data(u), 0)} :
                          u \in users \cup {DepsRow(2, "b@x", "user", TRUE)} }
    /\ rotated = {}
    /\ otpUses = <<>>
    /\ workspaces = {}
    /\ members = {}
    /\ nextId = 0

StepDeps(p) ==
    \/ \E a \in Presentable : get_current_user_info(p, a)
    \/ \E a \in Presentable, r \in Roles : require_role(p, a, r)

NextDeps == (\E p \in Procs : StepDeps(p)) \/ Env

SpecDeps == InitDeps /\ [][NextDeps]_vars

\* The workspace service on its own: three active users and a deactivated one,
\* each holding an access token, and either no workspace yet or the workspace
\* "acme" that user 1 created and added user 2 to as admin.
WsUsers == {DepsRow(1, "a@x", "user", TRUE), DepsRow(2, "b@x", "user", TRUE),
            DepsRow(3, "c@x", "user", TRUE), DepsRow(4, "d@x", "user", FALSE)}

WsSlugs == {<<"acme">>}
WsNames == {<<"Acme">>}
WsNewNames == {<<"Beta">>}

WsSeeds ==
    { [workspaces |-> {}, members |-> {}, nextId |-> 0],
      [workspaces |-> {[id |-> 1, name |-> <<"Acme">>, slug |-> <<"acme">>, owner_id |-> 1]},
       members |-> {[id |-> 2, workspace_id |-> 1, user_id |-> 1, role |-> "owner"],
                    [id |-> 3, workspace_id |-> 1, user_id |-> 2, role |-> "admin"]},
       nextId |-> 3] }

InitWs ==
    /\ settings = [JWT_SECRET |-> "k1", JWT_REFRESH_SECRET |-> "k2",
                   REFRESH_TOKEN_EXPIRE_DAYS |-> REFRESH_TOKEN_EXPIRE_DAYS]
    /\ now = 0
    /\ ticks = 0
    /\ users = WsUsers
    /\ store = {}
    /\ otp = {}
    /\ nextOtp = 0
    /\ proc = [p \in Procs |-> Idle]
    /\ calls = 0
    /\ resp = NoResp
    /\ known = {create_access_token(token_data(u), 0) : u \in users}
    /\ rotated = {}
    /\ otpUses = <<>>
    /\ \E seed \in WsSeeds :
          /\ workspaces = seed.workspaces
          /\ members = seed.members
          /\ nextId = seed.nextId

StepWs(p) ==
    \/ \E a \in known, n \in WsNames, s \in WsSlugs : create_workspace(p, a, n, s)
    \/ create_workspace_search(p)
    \/ create_workspace_commit(p)
    \/ \E a \in known, w \in 1..nextId, n \in WsNewNames : update_workspace(p, a, w, n)
    \/ update_workspace_commit(p)
    \/ \E a \in known, w \in 1..nextId : delete_workspace(p, a, w)
    \/ delete_workspace_commit(p)
    \/ \E a \in known, w \in 1..nextId, u \in 0..Cardinality(users), r \in WorkspaceRoles :
          add_member(p, a, w, u, r)
    \/ add_member_commit(p)
    \/ \E a \in known, w \in 1..nextId, m \in 1..nextId : remove_member(p, a, w, m)
    \/ remove_member_commit(p)

NextWs == \E p \in Procs : StepWs(p)

SpecWs == InitWs /\ [][NextWs]_vars

\* ------------------------------------------------- workspace reads, spec
\* The reads next to the requests that change memberships, over two
\* workspaces: "acme" of user 1 with user 2 as admin, and "beta" of user 3.
ReadSeed ==
    [workspaces |-> {[id |-> 1, name |-> <<"Acme">>, slug |-> <<"acme">>, owner_id |-> 1],
                     [id |-> 4, name |-> <<"Beta">>, slug |-> <<"beta">>, owner_id |-> 3]},
     members |-> {[id |-> 2, workspace_id |-> 1, user_id |-> 1, role |-> "owner"],
                  [id |-> 3, workspace_id |-> 1, user_id |-> 2, role |-> "admin"],
                  [id |-> 5, workspace_id |-> 4, user_id |-> 3, role |-> "owner"]},
     nextId |-> 5]

ReadSlugs == {<<"acme">>, <<"nope">>}

InitRead ==
    /\ settings = [JWT_SECRET |-> "k1", JWT_REFRESH_SECRET |-> "k2",
                   REFRESH_TOKEN_EXPIRE_DAYS |-> REFRESH_TOKEN_EXPIRE_DAYS]
    /\ now = 0
    /\ ticks = 0
    /\ users = WsUsers
    /\ store = {}
    /\ otp = {}
    /\ nextOtp = 0
    /\ proc = [p \in Procs |-> Idle]
    /\ calls = 0
    /\ resp = NoResp
    /\ known = {create_access_token(token_data(u), 0) : u \in users}
    /\ rotated = {}
    /\ otpUses = <<>>
    /\ workspaces = ReadSeed.workspaces
    /\ members = ReadSeed.members
    /\ nextId = ReadSeed.nextId

StepRead(p) ==
    \/ \E a \in known : list_workspaces(p, a)
    \/ list_workspaces_role(p)
    \/ \E a \in known, w \in 1..nextId : api_get_workspace(p, a, w)
    \/ get_workspace_fetch(p)
    \/ \E a \in known, s \in ReadSlugs : get_workspace_by_slug(p, a, s)
    \/ by_slug_check(p)
    \/ workspace_role(p)
    \/ workspace_members(p)
    \/ \E a \in known, w \in 1..nextId : list_workspace_members(p, a, w)
    \/ list_members_fetch(p)
    \/ \E a \in known, w \in 1..nextId, u \in 1..Cardinality(users) :
          add_member(p, a, w, u, "member")
    \/ add_member_commit(p)
    \/ \E a \in known, w \in 1..nextId, m \in 1..nextId : remove_member(p, a, w, m)
    \/ remove_member_commit(p)
    \/ \E a \in known, w \in 1..nextId : delete_workspace(p, a, w)
    \/ delete_workspace_commit(p)

NextRead == \E p \in Procs : StepRead(p)

SpecRead == InitRead /\ [][NextRead]_vars

\* ---------------------------------------------------- create_workspace alone
\* POST /workspaces with a slug, or with a name only; the names slugify to
\* "acme" and to "acme-1", the text the search builds for its first retry.
SlugBodies ==
    { [name |-> <<"Acme">>, slug |-> <<>>],
      [name |-> <<"acme", "!", " ", "_", "1">>, slug |-> <<>>],
      [name |-> <<"-", "Acme", " ">>, slug |-> <<"acme">>] }

InitSlug ==
    /\ settings = [JWT_SECRET |-> "k1", JWT_REFRESH_SECRET |-> "k2",
                   REFRESH_TOKEN_EXPIRE_DAYS |-> REFRESH_TOKEN_EXPIRE_DAYS]
    /\ now = 0
    /\ ticks = 0
    /\ users = WsUsers
    /\ store = {}
    /\ otp = {}
    /\ nextOtp = 0
    /\ proc = [p \in Procs |-> Idle]
    /\ calls = 0
    /\ resp = NoResp
    /\ known = {create_access_token(token_data(u), 0) : u \in {x \in users : x.id \in {1, 4}}}
    /\ rotated = {}
    /\ otpUses = <<>>
    /\ \E seed \in WsSeeds :
          /\ workspaces = seed.workspaces
          /\ members = seed.members
          /\ nextId = seed.nextId

StepSlug(p) ==
    \/ \E a \in known, b \in SlugBodies : create_workspace(p, a, b.name, b.slug)
    \/ create_workspace_search(p)
    \/ create_workspace_commit(p)

NextSlug == \E p \in Procs : StepSlug(p)

SpecSlug == InitSlug /\ [][NextSlug]_vars

\* ------------------------------------------------------------ login alone
\* POST /api/auth/login against a users table whose row for a@x has a password
\* hash or none (an SSO-only account) and is active or not.
LoginRow(id, email, hash, active) ==
    [NewUser(id, email, "pw1") EXCEPT !.password_hash = hash, !.is_active = active]

LoginUsers ==
    { {LoginRow(1, "a@x", h, b)} \cup other :
          h \in {NoHash, hash_password("pw1")}, b \in BOOLEAN,
          other \in {{}, {LoginRow(2, "b@x", hash_password("pw2"), TRUE)}} }

InitLogin ==
    /\ settings \in SecretConfigs
    /\ now = 0
    /\ ticks = 0
    /\ users \in LoginUsers
    /\ store = {}
    /\ otp = {}
    /\ nextOtp = 0
    /\ proc = [p \in Procs |-> Idle]
    /\ calls = 0
    /\ resp = NoResp
    /\ known = {}
    /\ rotated = {}
    /\ otpUses = <<>>
    /\ workspaces = {}
    /\ members = {}
    /\ nextId = 0

StepLogin(p) ==
    \/ \E e \in Emails, w \in Passwords : authenticate_user(p, e, w)
    \/ login_issue(p)

NextLogin == (\E p \in Procs : StepLogin(p)) \/ Env

SpecLogin == InitLogin /\ [][NextLogin]_vars

\* =================================================================== claims

\* The four conditions of a usable refresh token, stated on the state.
RefreshUsable(t) ==
    /\ t.key = settings.JWT_REFRESH_SECRET
    /\ now <= t.exp
    /\ t.type = "refresh"
    /\ \E r \in store : r.uid = t.sub /\ r.tok = t

\* C1: a refresh_access_token call passes its token checks (and goes on to the
\* user lookup) if and only if the presented token is signed with the refresh
\* secret, is not past its expiry, is tagged "refresh" and has an allow record
\* under (its subject, its value) at the time of the check.
C1_RefreshChecksIff ==
    [][\A p \in Procs, t \in Presentable :
          refresh_access_token(p, t) =>
              ((proc'[p].pc = "refresh_user") <=> RefreshUsable(t))]_vars

C1_Witness ==
    \E p \in Procs : proc[p].pc = "refresh_user" /\ RefreshUsable(proc[p].tok)

\* C2: with requests served one at a time, no refresh_access_token call returns
\* a new pair for a token that an earlier refresh_access_token call has already
\* exchanged.
C2_RotatedTokenRejected ==
    [][\A p \in Procs : refresh_store(p) => proc[p].tok \notin rotated]_vars

\* C3: once a refresh token that was returned to a caller is no longer usable
\* (its allow record removed or expired), no step makes it usable again.
C3_NoReturnToUsable ==
    [][\A t \in known :
          (t.type = "refresh" /\ ~RefreshUsable(t)) => ~(RefreshUsable(t)')]_vars

C5_ChangePasswordRevokesAll ==
    [][\A p \in Procs, a \in known, c \in Passwords, w \in Passwords :
          (change_password(p, a, c, w) /\ resp'.code = 200) =>
              \A r \in store' : r.uid # resp'.sub]_vars

\* C6: when authenticate_user or refresh_access_token returns a refresh token R
\* for user P, the store holds the allow record (P, R) at that moment; and every
\* allow record is keyed by a refresh token that was returned to a caller and by
\* that token's subject.
C6_IssuedIsRegistered ==
    /\ [][\A p \in Procs :
            (login_issue(p) \/ refresh_store(p)) =>
                /\ resp'.code = 200
                /\ resp'.new.type = "refresh"
                /\ resp'.new.sub = resp'.sub
                /\ \E r \in store' : r.uid = resp'.sub /\ r.tok = resp'.new]_vars
    /\ [](\A r \in store : r.tok \in known /\ r.tok.type = "refresh" /\ r.uid = r.tok.sub)

C6_Witness ==
    /\ resp.op = "refresh" /\ resp.code = 200
    /\ \E r \in store : r.uid = resp.sub /\ r.tok = resp.new

\* C7: a refresh_access_token call that fails leaves the store as it was: the
\* two checking steps never write to it, and no failing reply of the call
\* comes with a change of the store.
C7_NoPartialRotation ==
    [][/\ \A p \in Procs :
             ((\E t \in Presentable : refresh_access_token(p, t)) \/ refresh_get_user(p))
                 => store' = store
       /\ (resp' # resp /\ resp'.op = "refresh" /\ resp'.code # 200) => store' = store]_vars

C7_Witness ==
    /\ resp.op = "refresh" /\ resp.code = 401
    /\ resp.detail = "User not found or inactive"
    /\ \E r \in store : r.uid = resp.sub

\* C8: with requests served one at a time, a one-time token is redeemed at most
\* once: a reset_password / verify_email call presenting a stored token goes
\* through and ends with the mapping deleted, and a call presenting a token
\* that was already redeemed fails with 400 and leaves the users table alone.
C8_OneTimeSequential ==
    /\ [](\A o \in 1..nextOtp : otpUses[o] <= 1)
    /\ [][\A p \in Procs, o \in 1..nextOtp :
            /\ \A w \in Passwords : reset_password(p, o, w) =>
                 /\ (OtpGet("password_reset", o) # {}) => proc'[p].pc = "reset_commit"
                 /\ otpUses[o] >= 1 =>
                       /\ resp' = Response("reset_password", 400,
                                           "Invalid or expired reset token", 0, NoTok)
                       /\ users' = users
            /\ verify_email(p, o) =>
                 /\ (OtpGet("email_verification", o) # {}) => proc'[p].pc = "verify_commit"
                 /\ otpUses[o] >= 1 =>
                       /\ resp' = Response("verify_email", 400,
                                           "Invalid or expired verification token", 0, NoTok)
                       /\ users' = users
            /\ (reset_commit(p) \/ verify_commit(p)) => proc'[p].pc # "idle"
            /\ (proc[p].otp = o /\ proc[p].pc \in {"reset_scan", "reset_revoke", "verify_delete"}
                  /\ proc'[p].pc = "idle")
                   => (resp'.code = 200 /\ otpUses'[o] = 1
                       /\ OtpGet("password_reset", o)' = {}
                       /\ OtpGet("email_verification", o)' = {})]_vars

C8_Witness ==
    /\ nextOtp = 1 /\ otpUses[1] = 1
    /\ resp = Response("reset_password", 400, "Invalid or expired reset token", 0, NoTok)

\* C9: no one-time token is redeemed successfully more than once, whatever the
\* interleaving of the calls that present it.
C9_AtMostOneRedemption ==
    \A o \in 1..nextOtp : otpUses[o] <= 1

C11_AccessTokenRoundTrip ==
    \A a \in known : a.type = "access" =>
        LET d == decode_token(a, "access", now) IN
        /\ now < a.exp =>
              /\ d # None
              /\ \E u \in users : u.id = d.sub /\ u.email = d.email /\ u.role = d.role
        /\ now > a.exp => d = None

C11_Witness ==
    /\ \E a \in known : a.type = "access" /\ now > a.exp
                         /\ decode_token(a, "access", now) = None
    /\ \E b \in known : b.type = "access" /\ now < b.exp
                         /\ decode_token(b, "access", now) = b

\* C12: whatever the two secrets are set to, a refresh token that was issued
\* is never accepted by decode_token(..., "access") and never authenticates a
\* request through get_current_user, and an access token that was issued is
\* never accepted by decode_token(..., "refresh") and never passes the token
\* checks of refresh_access_token.
C12_CrossTypeRejected ==
    /\ [](\A t \in known :
            /\ t.type = "refresh" =>
                  /\ decode_token(t, "access", now) = None
                  /\ get_current_user(t).code = 401
            /\ t.type = "access" =>
                  /\ decode_token(t, "refresh", now) = None
                  /\ refresh_check(t) = "Invalid refresh token")
    /\ [][\A p \in Procs, t \in known :
            /\ (t.type = "refresh" /\ get_current_user_info(p, t)) =>
                  (resp'.code = 401 /\ resp'.sub = 0)
            /\ (t.type = "access" /\ refresh_access_token(p, t)) =>
                  (resp'.code = 401 /\ proc'[p].pc = "idle"
                   /\ known' = known /\ store' = store)]_vars

C12_Witness ==
    /\ settings.JWT_SECRET = settings.JWT_REFRESH_SECRET
    /\ resp.op = "me" /\ resp.code = 401
    /\ now = 0
    /\ \A u \in users : u.is_active
    /\ \E t \in known : t.type = "refresh" /\ RefreshUsable(t)

\* C13: with requests served one at a time (register, login, refresh, logout),
\* once logout has returned for the user's own, currently allowed refresh
\* token, that token fails the checks of refresh_access_token with "revoked",
\* it stays failing them for as long as no new pair is issued, and a
\* refresh_access_token call with a token that fails them answers 401 and
\* issues nothing.
C13_LoggedOutTokenRejected ==
    [][/\ \A p \in Procs, a \in known, t \in known :
             (/\ logout(p, a, t)
              /\ resp'.code = 200
              /\ get_current_user(a).id = t.sub
              /\ RefreshUsable(t))
                 => refresh_check(t)' = "Refresh token has been revoked"
       /\ \A t \in known :
             (t.type = "refresh" /\ refresh_check(t) # "" /\ refresh_check(t)' = "")
                 => \E p \in Procs : login_issue(p) \/ refresh_store(p)
       /\ \A p \in Procs, t \in Presentable :
             (refresh_access_token(p, t) /\ refresh_check(t) # "")
                 => /\ resp'.op = "refresh" /\ resp'.code = 401 /\ resp'.new = NoTok
                    /\ proc'[p].pc = "idle"
                    /\ known' = known /\ store' = store]_vars

C13_Witness ==
    /\ resp.op = "logout" /\ resp.code = 200
    /\ calls = 3
    /\ rotated # {}
    /\ store = {}
    /\ \E t \in known : refresh_check(t) = "Refresh token has been revoked"

\* C14: revoking is idempotent and precise: on every reachable store, deleting
\* the record of a (user, token) pair that has none leaves the store as it is,
\* deleting twice gives what deleting once gives, and the delete removes the
\* one record of that pair and no other; logout of an authenticated user
\* answers 200 whether or not the record existed and changes the store in
\* exactly that way.
C14_RevokeIdempotentPrecise ==
    /\ [](\A u \in users, t \in known :
            LET s1 == _revoke_refresh_token(store, u.id, t) IN
            /\ ~_check_refresh_token(store, u.id, t) => s1 = store
            /\ _revoke_refresh_token(s1, u.id, t) = s1
            /\ s1 = store \ {r \in store : r.uid = u.id /\ r.tok = t}
            /\ Cardinality(store) - Cardinality(s1) <= 1)
    /\ [][\A p \in Procs, a \in known, t \in known :
            (logout(p, a, t) /\ get_current_user(a).code = 200) =>
                /\ resp'.code = 200
                /\ store' = store \ {r \in store : r.uid = get_current_user(a).id /\ r.tok = t}
                /\ ~_check_refresh_token(store, get_current_user(a).id, t)
                      => store' = store]_vars

C14_Witness ==
    /\ resp.op = "logout" /\ resp.code = 200
    /\ \E t \in known :
          /\ t.type = "refresh" /\ now <= t.exp
          /\ ~_check_refresh_token(store, t.sub, t)
          /\ \E r \in store : r.uid = t.sub /\ r.tok # t

\* C15: verifying an access token is read-only and stateless: a request that
\* only authenticates (GET /api/auth/me) changes neither store nor the users
\* table; decode_token accepts a presented token as an access token exactly
\* when its key, type tag and expiry say so; no step other than the passing
\* of time changes its verdict on any issued token; and so an issued access
\* token that is not past its expiry is accepted whatever logout, rotation,
\* revoke-all or password reset has happened since.
C15_AccessVerificationStateless ==
    /\ [](\A a \in Presentable :
            /\ (decode_token(a, "access", now) # None)
                  <=> (a.key = settings.JWT_SECRET /\ a.type = "access" /\ now <= a.exp)
            /\ (a \in known /\ a.type = "access" /\ now <= a.exp)
                  => decode_token(a, "access", now) = a)
    /\ [][/\ \A p \in Procs, a \in Presentable :
               get_current_user_info(p, a) =>
                   (store' = store /\ otp' = otp /\ users' = users /\ known' = known)
          /\ now' = now =>
                \A a \in Presentable :
                    decode_token(a, "access", now)' = decode_token(a, "access", now)]_vars

C15_Witness ==
    /\ resp.op = "me" /\ resp.code = 200
    /\ calls = 3
    /\ \A r \in store : r.uid # resp.sub
    /\ \E t \in known : t.type = "refresh" /\ t.sub = resp.sub /\ now <= t.exp

\* C16: in every reachable state no two users rows share an email; whatever
\* the interleaving of register_user calls, the commit of a registration ends
\* with exactly one row for its email and adds none when there already was
\* one; and a register_user call for an email that already has a row fails
\* with 400 and leaves the users table unchanged.
C16_UniqueEmail ==
    /\ [](\A u \in users, v \in users : (u.email = v.email \/ u.id = v.id) => u = v)
    /\ [][\A p \in Procs :
            /\ \A e \in Emails, w \in Passwords :
                  (register_user(p, e, w) /\ UserByEmail(e) # {}) =>
                      /\ resp' = Response("register", 400, "Email already registered",
                                          0, NoTok)
                      /\ proc'[p].pc = "idle"
                      /\ users' = users
            /\ register_commit(p) =>
                  /\ Cardinality({u \in users' : u.email = proc[p].email}) = 1
                  /\ UserByEmail(proc[p].email) # {} => users' = users]_vars

C16_Witness ==
    /\ resp.op = "register" /\ resp.code = 500
    /\ Cardinality(users) = 1
    /\ calls = 2

\* C17: for every configured REFRESH_TOKEN_EXPIRE_DAYS, the time-to-live given
\* to the allow record of a newly issued refresh token equals the token's own
\* expiry window (the configured days, in seconds).
C17_TtlEqualsExpiryWindow ==
    [][\A p \in Procs :
          (login_issue(p) \/ refresh_store(p)) =>
              \A r \in store' :
                  (r.uid = resp'.sub /\ r.tok = resp'.new) =>
                      r.at - now = settings.REFRESH_TOKEN_EXPIRE_DAYS * 86400]_vars

\* C18: a route that depends on require_role(r) admits an authenticated,
\* active user of role u exactly when u ranks at least as high as r in the
\* order super_admin > admin > user, and answers 403 otherwise; require_admin
\* admits exactly admin and super_admin, require_super_admin exactly
\* super_admin.
C18_RoleHierarchy ==
    /\ [][\A p \in Procs, a \in Presentable, r \in Roles :
            (require_role(p, a, r) /\ get_current_user(a).code = 200) =>
                LET u == (CHOOSE x \in UserById(get_current_user(a).id) : TRUE).role IN
                IF <<u, r>> \in { <<"user", "user">>, <<"admin", "user">>,
                                  <<"admin", "admin">>, <<"super_admin", "user">>,
                                  <<"super_admin", "admin">>,
                                  <<"super_admin", "super_admin">> }
                THEN resp'.code = 200 /\ resp'.sub = get_current_user(a).id
                ELSE resp'.code = 403 /\ resp'.sub = 0]_vars
    /\ []({u \in Roles : require_admin(u).code = 200} = {"admin", "super_admin"})
    /\ []({u \in Roles : require_super_admin(u).code = 200} = {"super_admin"})

C18_Witness ==
    /\ resp.op = "require_role" /\ resp.code = 403
    /\ resp.detail = "Insufficient permissions. Required role: super_admin"
    /\ \E u \in users : u.role = "admin" /\ u.is_active

C20_OwnerNotRemovable ==
    /\ [](\A w \in workspaces :
            \E m \in members :
                m.workspace_id = w.id /\ m.user_id = w.owner_id /\ m.role = "owner")
    /\ [][\A p \in Procs :
            /\ \A m \in {x \in members : x.role = "owner"}, a \in known :
                  (/\ get_current_user(a).code = 200
                   /\ remove_member(p, a, m.workspace_id, m.id))
                      => /\ resp' = Response("remove_member", 400,
                                             "Cannot remove workspace owner", 0, NoTok)
                         /\ proc'[p].pc = "idle"
                         /\ members' = members
            /\ remove_member_commit(p) =>
                  \A m \in members \ members' : m.role # "owner"
            /\ (create_workspace_commit(p) /\ resp'.code = 201) =>
                  \E w \in workspaces' \ workspaces :
                      /\ w.owner_id = resp'.sub
                      /\ \E m \in members' \ members :
                            m.workspace_id = w.id /\ m.user_id = w.owner_id
                            /\ m.role = "owner"]_vars

C20_Witness ==
    /\ resp = Response("remove_member", 400, "Cannot remove workspace owner", 0, NoTok)
    /\ \E w \in workspaces : w.id > 3

\* C23: refresh_access_token checks in the order token, allow record, user:
\* a presented token with a wrong signature, a wrong type tag or a passed
\* expiry is answered "Invalid refresh token" whatever the store and the users
\* table hold; a token that passes these and has no allow record is answered
\* "revoked" whether or not its user exists or is active; and the answer
\* "User not found or inactive" is given only by the user lookup of a call
\* whose token passed both checks.
C23_RefreshCheckOrder ==
    [][/\ \A p \in Procs, t \in Presentable :
             refresh_access_token(p, t) =>
                 LET valid == /\ t.key = settings.JWT_REFRESH_SECRET
                              /\ t.type = "refresh"
                              /\ now <= t.exp
                     allowed == \E r \in store : r.uid = t.sub /\ r.tok = t
                 IN  /\ ~valid =>
                           resp' = Response("refresh", 401, "Invalid refresh token", 0, NoTok)
                     /\ (valid /\ ~allowed) =>
                           resp' = Response("refresh", 401,
                                            "Refresh token has been revoked", 0, NoTok)
                     /\ (valid /\ allowed) =>
                           (proc'[p].pc = "refresh_user" /\ proc'[p].tok = t /\ resp' = resp)
       /\ (resp' # resp /\ resp'.detail = "User not found or inactive") =>
             \E p \in Procs : refresh_get_user(p) /\ proc[p].pc = "refresh_user"]_vars

C23_Witness ==
    /\ resp = Response("refresh", 401, "Refresh token has been revoked", 0, NoTok)
    /\ \E t \in known :
          /\ t.type = "refresh" /\ now <= t.exp
          /\ \A r \in store : r.tok # t
          /\ \E u \in users : u.id = t.sub /\ ~u.is_active
          /\ \A k \in known : k.type = "refresh" => k = t

C25_RefreshRace ==
    [][\A p \in Procs :
          /\ \A t \in Presentable : refresh_access_token(p, t) => store' = store
          /\ refresh_revoke(p) => (proc'[p].pc = "refresh_store" /\ resp' = resp)
          /\ refresh_store(p) =>
                /\ resp'.code = 200 /\ resp'.new = proc[p].newR
                /\ _check_refresh_token(store', proc[p].uid, proc[p].newR)
                /\ \A r \in store : r.tok # proc[p].newR => r \in store']_vars

\* One call has returned a pair for token t; a second call that checked t
\* before the first deleted its record is about to register a different one.
C25_Witness ==
    \E p \in Procs :
        /\ proc[p].pc = "refresh_store"
        /\ proc[p].tok \in rotated
        /\ resp.op = "refresh" /\ resp.code = 200
        /\ resp.new # proc[p].newR
        /\ resp.sub = proc[p].uid
        /\ _check_refresh_token(store, resp.sub, resp.new)
        /\ calls = 3

\* C28: password reset ends every session even under concurrency: a login
\* for subject S that verified the password S had before the reset, and is
\* still in flight when reset_password returns successfully for S, leaves no
\* allow record of S in the store when it completes.
C28_ResetEndsSessionsConcurrently ==
    [][\A q \in Procs :
          (/\ login_issue(q)
           /\ resp.op = "reset_password" /\ resp.code = 200 /\ resp.sub = proc[q].uid
           /\ \A p \in Procs \ {q} : proc[p].pc = "idle"
           /\ \E u \in users : u.id = proc[q].uid
                                /\ ~verify_password(proc[q].pw, u.password_hash))
              => \A r \in store' : r.uid # proc[q].uid]_vars

\* C29: revocation is isolated per subject: the steps of logout, refresh and
\* revoke-all that run on behalf of subject A leave the allow records of every
\* other subject as they are; a logout by authenticated user A that presents
\* the allowed refresh token of another subject B leaves B's record in place,
\* and that token still passes the checks of refresh_access_token.
C29_RevocationPerSubject ==
    [][\A p \in Procs :
         /\ (refresh_revoke(p) \/ refresh_store(p) \/ _revoke_all_scan(p)
                \/ _revoke_all_delete(p))
               => {r \in store' : r.uid # proc[p].uid} = {r \in store : r.uid # proc[p].uid}
         /\ \A a \in known, t \in known :
               (logout(p, a, t) /\ get_current_user(a).code = 200) =>
                  LET A == get_current_user(a).id IN
                  /\ {r \in store' : r.uid # A} = {r \in store : r.uid # A}
                  /\ (t.type = "refresh" /\ t.sub # A /\ RefreshUsable(t))
                        => (RefreshUsable(t)' /\ refresh_check(t)' = "")]_vars

C29_Witness ==
    /\ resp.op = "logout" /\ resp.code = 200
    /\ resp.req.type = "refresh"
    /\ RefreshUsable(resp.req)
    /\ refresh_check(resp.req) = ""

\* C30: authenticate_user goes on to issue tokens only for a correct password
\* on an account that is active when it is checked: for an unknown email, a
\* wrong password, a row with no password hash or a deactivated row the call
\* ends at once with no tokens, no allow record and last_login_at as it was;
\* unknown email and wrong password (or no hash) get the same 401 response; the
\* answer is 403 exactly when the row exists, the password is correct and the
\* row is inactive; last_login_at, the store and the issued tokens change
\* only in the issue step that follows a passed check.
C30_LoginOnlyCorrectActive ==
    [][/\ \A p \in Procs, e \in Emails, w \in Passwords :
            authenticate_user(p, e, w) =>
               LET found == UserByEmail(e)
                   pwok == \E u \in found : /\ u.password_hash # NoHash
                                            /\ verify_password(w, u.password_hash)
                   active == \E u \in found : u.is_active
               IN  /\ users' = users /\ store' = store /\ known' = known
                   /\ ~(pwok /\ active) =>
                         /\ proc'[p].pc = "idle"
                         /\ resp'.op = "login" /\ resp'.new = NoTok
                   /\ ~pwok => resp' = Response("login", 401,
                                                "Incorrect email or password", 0, NoTok)
                   /\ (pwok /\ ~active) => resp' = Response("login", 403,
                                                "User account is inactive", 0, NoTok)
                   /\ (pwok /\ active) => (proc'[p].pc = "login_issue" /\ resp' = resp)
       /\ \A p \in Procs :
            (proc[p].pc # "login_issue" /\ proc'[p].pc = "login_issue")
               => \E u \in users : /\ u.id = proc'[p].uid /\ u.is_active
                                   /\ u.password_hash # NoHash
                                   /\ verify_password(proc'[p].pw, u.password_hash)
       /\ (\/ {[u EXCEPT !.is_active = TRUE] : u \in users'}
                # {[u EXCEPT !.is_active = TRUE] : u \in users}
           \/ {r \in store' : r \notin store} # {}
           \/ known' # known)
             => \E p \in Procs : login_issue(p)]_vars

C30_Witness ==
    /\ resp = Response("login", 403, "User account is inactive", 0, NoTok)
    /\ calls = 3
    /\ store = {} /\ known = {}
    /\ \E u \in users : u.password_hash = NoHash /\ u.last_login_at = <<>>
    /\ \E u \in users : ~u.is_active /\ u.password_hash # NoHash /\ u.last_login_at = <<>>

C27_ExactlyOneOwner ==
    \A w \in workspaces :
        LET owners == {m \in members : m.workspace_id = w.id /\ m.role = "owner"} IN
        /\ Cardinality(owners) = 1
        /\ \A m \in owners : m.user_id = w.owner_id

\* The role gate of the workspace mutations, with the responses in `others`
\* admitted besides 403 and 404 as the failure of an unprivileged caller.
MutationsGated(others) ==
    /\ \A p \in Procs :
         (/\ proc[p].pc = "idle"
          /\ calls' = calls + 1
          /\ \/ proc'[p].pc # "idle"
             \/ (resp'.code \notin {403, 404} /\ resp' \notin others))
            => \A a \in known,
                  w \in (IF proc'[p].pc # "idle" THEN {proc'[p].ws} ELSE 1..nextId) :
                 LET cur == get_current_user(a)
                     privileged == check_workspace_permission(w, cur.id, {"owner", "admin"})
                     is_owner == \E x \in get_workspace(w) : x.owner_id = cur.id
                 IN  cur.code = 200 =>
                       /\ (\E n \in WsNewNames : update_workspace(p, a, w, n)) => privileged
                       /\ (/\ proc'[p].pc = "idle" => resp'.op = "add_member"
                           /\ \E u \in (IF proc'[p].pc # "idle" THEN {proc'[p].uid}
                                      ELSE 0..Cardinality(users)),
                               r \in (IF proc'[p].pc # "idle" THEN {proc'[p].role}
                                      ELSE WorkspaceRoles) :
                                add_member(p, a, w, u, r)) => privileged
                       /\ (/\ proc'[p].pc = "idle" => resp'.op = "remove_member"
                           /\ \E m \in (IF proc'[p].pc # "idle" THEN {proc'[p].mid}
                                      ELSE 1..nextId) :
                                remove_member(p, a, w, m)) => privileged
                       /\ delete_workspace(p, a, w) => is_owner
    /\ (workspaces' # workspaces \/ members' # members)
          => \E p \in Procs :
                /\ proc[p].pc \in {"create_workspace_commit", "update_workspace_commit",
                                    "delete_workspace_commit", "add_member_commit",
                                    "remove_member_commit"}
                /\ proc'[p].pc = "idle"
    /\ \A p \in Procs :
          (proc[p].pc = "idle" /\ proc'[p].pc # "idle")
             => (workspaces' = workspaces /\ members' = members)

\* C21 as stated: update_workspace, add_member and remove_member get past
\* their checks only for a caller who is then a member with role owner or
\* admin, delete_workspace only for the caller named by owner_id; every other
\* authenticated caller is answered 403 or 404, and workspaces and
\* memberships change only in the commit that follows a passed check.
C21_MutationsGated403Or404 == [][MutationsGated({})]_vars

\* C21, amended: the same, with one more failure answer: remove_member on a
\* membership whose role is owner answers 400 to every caller, privileged
\* or not.
C21_MutationsGated ==
    [][MutationsGated({Response("remove_member", 400, "Cannot remove workspace owner",
                                0, NoTok)})]_vars

C21_Witness ==
    /\ resp = Response("remove_member", 403, "Insufficient permissions", 0, NoTok)
    /\ calls = 3
    /\ \E w \in workspaces : w.name = <<"Beta">>
    /\ \E m \in members : m.role = "member"

\* C22: tenant isolation on reads: get_workspace, get_workspace_by_slug and
\* list_workspace_members go past their membership check only for a caller
\* who is then a member of the workspace (any role); an authenticated caller
\* who is not is answered 403 with no data; a body with data is only produced
\* by a request that passed the check, for the caller it was checked for, and
\* holds rows of the checked workspace only; list_workspaces returns exactly
\* the workspaces in which the caller has a membership when it queries.
C22_ReadsTenantIsolated ==
    [][/\ \A p \in Procs :
            /\ (/\ proc[p].pc \in {"idle", "by_slug_check"}
                /\ proc'[p].pc \in {"get_workspace_fetch", "list_members_fetch",
                                     "workspace_role"})
                  => /\ check_workspace_permission(proc'[p].ws, proc'[p].uid, {})
                     /\ \E a \in known : /\ get_current_user(a).code = 200
                                          /\ get_current_user(a).id = proc'[p].uid
            /\ (proc[p].pc # proc'[p].pc /\ proc'[p].pc = "workspace_role")
                  => /\ proc[p].pc \in {"get_workspace_fetch", "by_slug_check"}
                     /\ proc'[p].uid = proc[p].uid /\ proc'[p].ws = proc[p].ws
                     /\ \A w \in proc'[p].found : w.id = proc[p].ws
            /\ (proc[p].pc # proc'[p].pc /\ proc'[p].pc = "workspace_members")
                  => /\ proc[p].pc = "workspace_role"
                     /\ proc'[p].uid = proc[p].uid /\ proc'[p].ws = proc[p].ws
                     /\ proc'[p].found = proc[p].found
            /\ (/\ proc[p].pc = "idle" /\ calls' = calls + 1
                /\ \/ proc'[p].pc = "get_workspace_fetch"
                   \/ /\ proc'[p].pc = "idle" /\ resp'.op = "get_workspace"
                      /\ resp' # NoAccess("get_workspace")) =>
                  \A a \in known,
                     w \in (IF proc'[p].pc # "idle" THEN {proc'[p].ws} ELSE 1..nextId) :
                     (/\ get_current_user(a).code = 200
                      /\ ~\E m \in members : /\ m.workspace_id = w
                                              /\ m.user_id = get_current_user(a).id)
                        => ~api_get_workspace(p, a, w)
            /\ (/\ proc[p].pc = "idle" /\ calls' = calls + 1
                /\ \/ proc'[p].pc = "list_members_fetch"
                   \/ /\ proc'[p].pc = "idle" /\ resp'.op = "list_workspace_members"
                      /\ resp' # NoAccess("list_workspace_members")) =>
                  \A a \in known,
                     w \in (IF proc'[p].pc # "idle" THEN {proc'[p].ws} ELSE 1..nextId) :
                     (/\ get_current_user(a).code = 200
                      /\ ~\E m \in members : /\ m.workspace_id = w
                                              /\ m.user_id = get_current_user(a).id)
                        => ~list_workspace_members(p, a, w)
            /\ (proc[p].pc = "by_slug_check"
                   /\ ~\E m \in members : m.workspace_id = proc[p].ws
                                           /\ m.user_id = proc[p].uid)
                  => (by_slug_check(p) => resp' = NoAccess("get_workspace_by_slug"))
            /\ \A a \in known :
                  (/\ proc[p].pc = "idle"
                   /\ proc'[p].pc = "list_workspaces_role" \/ resp'.op = "list_workspaces"
                   /\ list_workspaces(p, a) /\ get_current_user(a).code = 200) =>
                     LET mine == {w \in workspaces :
                                    \E m \in members : /\ m.workspace_id = w.id
                                                       /\ m.user_id = get_current_user(a).id}
                     IN  IF proc'[p].pc = "idle"
                         THEN mine = {} /\ resp'.code = 200 /\ resp'.data = {}
                         ELSE proc'[p].found = mine /\ proc'[p].data = {}
            /\ list_workspaces_role(p) =>
                  LET listed == proc[p].found \cup {d.workspace : d \in proc[p].data} IN
                  IF proc'[p].pc = "idle"
                  THEN {d.workspace : d \in resp'.data} = listed
                  ELSE proc'[p].found \cup {d.workspace : d \in proc'[p].data} = listed
       /\ (resp' # resp /\ resp'.data # {} /\ resp'.op # "list_workspaces")
             => \E p \in Procs :
                   /\ proc[p].pc \in {"workspace_members", "list_members_fetch"}
                   /\ proc'[p].pc = "idle"
                   /\ resp'.sub = proc[p].uid
                   /\ IF resp'.op = "list_workspace_members"
                      THEN \A m \in resp'.data : m.workspace_id = proc[p].ws
                      ELSE \A d \in resp'.data :
                              /\ d.workspace.id = proc[p].ws
                              /\ \A m \in d.members : m.workspace_id = proc[p].ws]_vars

C22_Witness ==
    /\ resp.op = "get_workspace_by_slug" /\ resp.code = 200
    /\ resp.sub = 3
    /\ \E d \in resp.data : d.workspace.slug = <<"acme">> /\ d.user_role = "member"

====
